---- MODULE Spec2Model ----
(***************************************************************************)
(* PiCelery: a Flask API that dispatches Celery tasks computing pi with    *)
(* the Chudnovsky series (pi_calculator.chudnovsky_pi), reporting progress *)
(* through update_state and answering /check_progress from the result      *)
(* backend.                                                                *)
(*                                                                         *)
(* Python integers are unbounded and decimal.Decimal carries getcontext()  *)
(* .prec significant digits.  Both are modelled exactly: an unbounded      *)
(* natural is a little-endian sequence of limbs in base 10^4 (no leading   *)
(* zero limb, zero is <<>>), a Decimal is a sign, a coefficient and an     *)
(* exponent, and every Decimal operation rounds half-even to the context   *)
(* precision as the decimal module does.                                   *)
(***************************************************************************)
EXTENDS Integers, Sequences, FiniteSets, TLC

None == "None"

Max(x, y) == IF x >= y THEN x ELSE y
Min(x, y) == IF x <= y THEN x ELSE y

\* ------------------------------------------------------------------------
\* Unbounded naturals (Python int)
\* ------------------------------------------------------------------------

Base == 10 * 1000
LimbDigits == 2 + 2

Limb(a, i) == IF 1 <= i /\ i <= Len(a) THEN a[i] ELSE 0

MaxOf(S) == CHOOSE i \in S : \A j \in S : j <= i

\* a without its leading zero limbs
BNorm(a) ==
    LET nz == {i \in 1..Len(a) : a[i] # 0}
    IN  IF nz = {} THEN <<>> ELSE SubSeq(a, 1, MaxOf(nz))

RECURSIVE BFromInt(_)
BFromInt(n) == IF n = 0 THEN <<>> ELSE <<n % Base>> \o BFromInt(n \div Base)

\* a + b: limb sums s, and a carry enters limb j when a lower limb overflows
\* and every limb between passes the carry on
BAdd(a, b) ==
    LET n == Max(Len(a), Len(b))
        s == [j \in 1..n |-> Limb(a, j) + Limb(b, j)]
        carry(j) == \E k \in 1..(j - 1) :
                       /\ s[k] >= Base
                       /\ \A m \in (k + 1)..(j - 1) : s[m] = Base - 1
    IN  [j \in 1..n |-> (s[j] + (IF carry(j) THEN 1 ELSE 0)) % Base]
        \o (IF carry(n + 1) THEN <<1>> ELSE <<>>)

\* a - b for a >= b, with the borrows found as the carries of BAdd are
BSub(a, b) ==
    LET n == Len(a)
        d == [j \in 1..n |-> a[j] - Limb(b, j)]
        borrow(j) == \E k \in 1..(j - 1) :
                        /\ d[k] < 0
                        /\ \A m \in (k + 1)..(j - 1) : d[m] = 0
    IN  BNorm([j \in 1..n |-> (d[j] + Base - (IF borrow(j) THEN 1 ELSE 0)) % Base])

\* -1, 0, 1 as a < b, a = b, a > b
BCmp(a, b) ==
    IF Len(a) < Len(b) THEN -1
    ELSE IF Len(a) > Len(b) THEN 1
    ELSE LET D == {i \in 1..Len(a) : a[i] # b[i]}
         IN  IF D = {} THEN 0 ELSE IF a[MaxOf(D)] < b[MaxOf(D)] THEN -1 ELSE 1

\* a * d for one limb 0 <= d < Base: the low and the high halves of the limb
\* products, added
BMulSmall(a, d) ==
    LET lo == [j \in 1..Len(a) |-> (a[j] * d) % Base]
        hi == <<0>> \o [j \in 1..Len(a) |-> (a[j] * d) \div Base]
    IN  BNorm(BAdd(lo, hi))

\* a * Base^k
BShift(a, k) == IF a = <<>> THEN a ELSE [j \in 1..k |-> 0] \o a

\* the sum of a * b[i] * Base^(i-1) for i in lo..hi
RECURSIVE BMulRange(_, _, _, _)
BMulRange(a, b, lo, hi) ==
    IF lo = hi THEN BShift(BMulSmall(a, b[lo]), lo - 1)
    ELSE LET mid == (lo + hi) \div 2
         IN  BAdd(BMulRange(a, b, lo, mid), BMulRange(a, b, mid + 1, hi))

BMul(a, b) == IF a = <<>> \/ b = <<>> THEN <<>> ELSE BMulRange(a, b, 1, Len(b))

SmallPow10(k) == CASE k = 0 -> 1 [] k = 1 -> 10 [] k = 2 -> 100 [] OTHER -> 1000

BPow10(k) == [j \in 1..(k \div LimbDigits) |-> 0] \o <<SmallPow10(k % LimbDigits)>>

\* a * 10^k
BMulPow10(a, k) == BShift(BMulSmall(a, SmallPow10(k % LimbDigits)), k \div LimbDigits)

\* a // 10^k
BDivPow10(a, k) ==
    LET w == k \div LimbDigits
        m == SmallPow10(k % LimbDigits)
    IN  BNorm([j \in 1..(Len(a) - w) |->
                  (a[j + w] \div m) + (Limb(a, j + w + 1) % m) * (Base \div m)])

\* a % 10^k
BModPow10(a, k) ==
    LET w == k \div LimbDigits
        m == SmallPow10(k % LimbDigits)
    IN  BNorm([j \in 1..Min(Len(a), w + 1) |-> IF j <= w THEN a[j] ELSE a[j] % m])

\* the largest d with b * d <= cur, counted down from an estimate est >= d
RECURSIVE QDigit(_, _, _)
QDigit(cur, b, est) ==
    IF BCmp(BMulSmall(b, est), cur) <= 0 THEN est ELSE QDigit(cur, b, est - 1)

\* one step of the long division by b: the limb x of the dividend is brought
\* down to the remainder and the next limb of the quotient is found.  The top
\* limb of b is at least Base / 2, so the estimate from the two top limbs of
\* the remainder is at most 2 too large
BDivStep(dv, b, x) ==
    LET cur == BNorm(<<x>> \o dv.rem)
        n   == Len(b)
        est == Min(Base - 1, (Limb(cur, n + 1) * Base + Limb(cur, n)) \div b[n])
        d   == IF BCmp(cur, b) < 0 THEN 0 ELSE QDigit(cur, b, est)
    IN  [rem |-> BSub(cur, BMulSmall(b, d)), q |-> <<d>> \o dv.q]

\* the steps for the limbs hi, hi - 1, ..., lo of a, in this order; the first
\* half is computed before the second half is entered
RECURSIVE BDivRange(_, _, _, _, _)
BDivRange(dv, a, b, hi, lo) ==
    IF hi < lo THEN dv
    ELSE IF hi = lo THEN BDivStep(dv, b, a[hi])
    ELSE LET mid  == (lo + hi + 1) \div 2
             left == BDivRange(dv, a, b, hi, mid)
         IN  IF Len(left.q) > 0 THEN BDivRange(left, a, b, mid - 1, lo) ELSE left

\* a // b for b > 0 (Python's // on non-negative ints), and whether a % b = 0.
\* Both are scaled by f first so that the top limb of b is at least Base / 2
BDivide(a, b) ==
    LET f  == Base \div (b[Len(b)] + 1)
        af == BMulSmall(a, f)
        bf == BMulSmall(b, f)
        dv == BDivRange([rem |-> <<>>, q |-> <<>>], af, bf, Len(af), 1)
    IN  [q |-> BNorm(dv.q), exact |-> dv.rem = <<>>]

SmallDigits(x) ==
    IF x = 0 THEN 0 ELSE IF x < 10 THEN 1 ELSE IF x < 100 THEN 2
    ELSE IF x < 1000 THEN 3 ELSE 4

\* number of decimal digits (0 for zero)
BNumDigits(a) ==
    IF a = <<>> THEN 0 ELSE (Len(a) - 1) * LimbDigits + SmallDigits(a[Len(a)])

BIsOdd(a) == a # <<>> /\ a[1] % 2 = 1

\* the number written in decimal as the digits ds, most significant first
BFromDigits(ds) ==
    LET n    == Len(ds)
        D(i) == IF i >= 1 THEN ds[i] ELSE 0
    IN  BNorm([j \in 1..((n + LimbDigits - 1) \div LimbDigits) |->
                 D(n - 4 * j + 1) * 1000 + D(n - 4 * j + 2) * 100
                 + D(n - 4 * j + 3) * 10 + D(n - 4 * j + 4)])

LimbToDigits(x) ==
    << x \div 1000, (x \div 100) % 10, (x \div 10) % 10, x % 10 >>

\* a written in decimal, most significant digit first, as a sequence of 0..9
BToDigits(a) ==
    LET n   == BNumDigits(a)
        all == [j \in 1..(LimbDigits * Len(a)) |->
                  LimbToDigits(a[Len(a) - ((j - 1) \div LimbDigits)])[((j - 1) % LimbDigits) + 1]]
    IN  SubSeq(all, LimbDigits * Len(a) - n + 1, LimbDigits * Len(a))

\* floor(sqrt(x)) of a number of at most two limbs
SmallSqrt(x) == CHOOSE r \in 0..(Base - 1) : r * r <= x /\ (r + 1) * (r + 1) > x

\* floor(sqrt(a)) by Newton's iteration from a start that is not below it
RECURSIVE BSqrtFrom(_, _)
BSqrtFrom(a, x) ==
    LET y == BDivPow10(BMulSmall(BAdd(x, BDivide(a, x).q), 5), 1)
    IN  IF BCmp(y, x) >= 0 THEN x ELSE BSqrtFrom(a, y)

BSqrt(a) ==
    LET n   == Len(a)
        top == IF n % 2 = 0 THEN a[n] * Base + a[n - 1] ELSE a[n]
    IN  IF a = <<>> THEN a
        ELSE BSqrtFrom(a, BShift(BFromInt(SmallSqrt(top) + 1), (n - 1) \div 2))

\* ------------------------------------------------------------------------
\* decimal.Decimal under getcontext().prec = p (rounding ROUND_HALF_EVEN)
\* ------------------------------------------------------------------------

\* Decimal(int): exact, whatever the context precision
DFromInt(sign, coef) == [sign |-> sign, coef |-> coef, exp |-> 0]

\* coef with its k lowest digits dropped, rounded half-even; sticky says that
\* digits below coef were already cut off and were not all zero
DropDigits(coef, k, sticky) ==
    LET q    == BDivPow10(coef, k)
        half == BMulSmall(BPow10(k - 1), 5)
        c    == BCmp(BModPow10(coef, k), half)
        up   == c > 0 \/ (c = 0 /\ (sticky \/ BIsOdd(q)))
    IN  IF up THEN BAdd(q, <<1>>) ELSE q

\* the context's rounding of an exact result to p significant digits
DRound(sign, coef, exp, p, sticky) ==
    LET nd == BNumDigits(coef)
    IN  IF nd <= p
        THEN [sign |-> sign, coef |-> coef, exp |-> exp]
        ELSE [sign |-> sign, coef |-> DropDigits(coef, nd - p, sticky),
              exp |-> exp + (nd - p)]

\* a / b, b # 0: the quotient is carried to at least p + 1 digits and the
\* remainder kept as the sticky bit, so the rounding is that of the exact value
DDiv(a, b, p) ==
    LET s  == Max(0, p + 1 + BNumDigits(b.coef) - BNumDigits(a.coef))
        dm == BDivide(BMulPow10(a.coef, s), b.coef)
    IN  DRound(a.sign * b.sign, dm.q, a.exp - b.exp - s, p, ~dm.exact)

DMul(a, b, p) ==
    DRound(a.sign * b.sign, BMul(a.coef, b.coef), a.exp + b.exp, p, FALSE)

DAdd(a, b, p) ==
    LET e  == Min(a.exp, b.exp)
        ca == BMulPow10(a.coef, a.exp - e)
        cb == BMulPow10(b.coef, b.exp - e)
        c  == BCmp(ca, cb)
    IN  IF a.sign = b.sign THEN DRound(a.sign, BAdd(ca, cb), e, p, FALSE)
        ELSE IF c >= 0 THEN DRound(a.sign, BSub(ca, cb), e, p, FALSE)
        ELSE DRound(b.sign, BSub(cb, ca), e, p, FALSE)

\* Decimal(v).sqrt() for a positive integer v: correctly rounded
DSqrt(v, p) ==
    LET g      == p + 1
        scaled == BMulPow10(v, 2 * g)
        t      == BSqrt(scaled)
    IN  DRound(1, t, -g, p, BMul(t, t) # scaled)

DigitChar(d) == <<"0", "1", "2", "3", "4", "5", "6", "7", "8", "9">>[d + 1]

Chars(ds) == [j \in 1..Len(ds) |-> DigitChar(ds[j])]

\* "{0:.<n>f}".format(d) for n >= 0: d rounded half-even to n places, written
\* in fixed point; the string is a sequence of characters
FormatFixed(d, n) ==
    LET k    == (0 - n) - d.exp
        q    == IF k > 0 THEN DropDigits(d.coef, k, FALSE)
                ELSE BMulPow10(d.coef, 0 - k)
        ip   == IF BDivPow10(q, n) = <<>> THEN <<0>> ELSE BToDigits(BDivPow10(q, n))
        fr   == BToDigits(BModPow10(q, n))
        pad  == [j \in 1..(n - Len(fr)) |-> 0]
    IN  (IF d.sign < 0 THEN <<"-">> ELSE <<>>)
        \o Chars(ip)
        \o (IF n > 0 THEN <<".">> \o Chars(pad \o fr) ELSE <<>>)

\* ------------------------------------------------------------------------
\* chudnovsky_pi: the pieces of the computation
\* ------------------------------------------------------------------------

GuardDigits == 10
DigitsPerTerm == 14
L0 == 13591409
LStep == 545140134
\* 262537412640768000, the magnitude of the factor of X
XStep == BFromDigits(<<2,6,2,5,3,7,4,1,2,6,4,0,7,6,8,0,0,0>>)
CFactor == 426880
CRadicand == 10005

\* getcontext().prec = n_decimals + 10
Precision(n_decimals) == n_decimals + GuardDigits

\* Iterations with one iteration fewer
IterationsOneLess(n_decimals) == Max(1, n_decimals \div DigitsPerTerm + 1)

\* iterations = max(1, n_decimals // 14 + 2)
Iterations(n_decimals) == Max(1, (n_decimals \div DigitsPerTerm) + 2)

\* C = 426880 * Decimal(10005).sqrt()
ChudC(p) == DMul(DFromInt(1, BFromInt(CFactor)), DSqrt(BFromInt(CRadicand), p), p)

\* the series state before the loop
SeriesInit ==
    [M |-> <<1>>, L |-> BFromInt(L0), Xmag |-> <<1>>, Xsign |-> 1, K |-> 6,
     S |-> DFromInt(1, BFromInt(L0))]

\* NextM with K taken after its increase by 12
NextMLateK(M, K, i) ==
    BDivide(BMul(M, BFromInt((K + 12) * (K + 12) * (K + 12) - 16 * (K + 12))),
            BFromInt(i * i * i)).q

\* M = (K**3 - 16*K) * M // i**3
NextM(M, K, i) == BDivide(BMul(M, BFromInt(K * K * K - 16 * K)), BFromInt(i * i * i)).q

\* one pass of the loop body over the series state
SeriesStep(st, i, p) ==
    LET M1  == NextM(st.M, st.K, i)
        L1  == BAdd(st.L, BFromInt(LStep))
        X1  == BMul(st.Xmag, XStep)
        xs  == 0 - st.Xsign
        term == DDiv(DFromInt(1, BMul(M1, L1)), DFromInt(xs, X1), p)
    IN  [M |-> M1, L |-> L1, Xmag |-> X1, Xsign |-> xs, K |-> st.K + 12,
         S |-> DAdd(st.S, term, p)]

\* pi_result = C / S
PiResult(C, st, p) == DDiv(C, st.S, p)

\* ------------------------------------------------------------------------
\* Bounds of the model
\* ------------------------------------------------------------------------

NumWorkers == 2
MaxTasks == 2
MaxRequests == 1
MaxRawLen == 2
MaxDecimals == 16
MaxNegative == 11

Workers == 1..NumWorkers
Tasks == 1..Max(MaxTasks, MaxRequests)

\* ------------------------------------------------------------------------
\* Values
\* ------------------------------------------------------------------------

\* an optional value: <<>> is Python's None, <<v>> is the value v
Nothing == <<>>
Some(v) == <<v>>

\* a float that is the quotient of two small integers, kept as the pair
Float(num, den) == <<num, den>>
FloatLe(a, b) == a[1] * b[2] <= b[1] * a[2]
FloatLt(a, b) == a[1] * b[2] < b[1] * a[2]
FloatEq(a, b) == a[1] * b[2] = b[1] * a[2]

F_0_0 == Float(0, 1)
F_0_99 == Float(99, 100)
F_1_0 == Float(1, 1)

\* messages of the exceptions the run can raise
PrecError == "valid range for prec is [1, MAX_PREC]"
FormatError == "invalid format string"
FileError == "OSError: data.csv"
SinkError == "update_state failed"

\* UpdateFrequency without the case of up to 100 iterations
UpdateFrequencyAlways(iterations) == Max(1, iterations \div 50)

\* update_frequency = 1 if iterations <= 100 else max(1, iterations // 50)
UpdateFrequency(iterations) ==
    IF iterations <= 100 THEN 1 ELSE Max(1, iterations \div 50)

\* ------------------------------------------------------------------------
\* State
\* ------------------------------------------------------------------------

VARIABLES
    queue,      \* the broker's queue: ids of the tasks sent and not yet started
    run,        \* run[t]: the frame of calculate_pi_task / chudnovsky_pi of task t
    ctxPrec,    \* ctxPrec[w]: getcontext().prec of worker process w
    store,      \* the result backend: store[t] = [state, info]
    emitted,    \* emitted[t]: the update_state calls of task t, in order
    data_csv,   \* the file data.csv in the workers' directory
    http,       \* the last response of GET /calculate_pi
    chk,        \* POST /check_progress in flight: its position and what it read
    resp,       \* the last response of POST /check_progress
    fit         \* a run of the power-law fit: its samples and what it gave

vars == <<queue, run, ctxPrec, store, emitted, data_csv, http, chk, resp, fit>>

\* the precision of Python's default decimal context
DefaultPrec == 28

\* locals of chudnovsky_pi that are not assigned yet
NoDecimal == [sign |-> 1, coef |-> <<>>, exp |-> 0]
NoSeries == [M |-> <<>>, L |-> <<>>, Xmag |-> <<>>, Xsign |-> 1, K |-> 0,
             S |-> NoDecimal]

NoRun ==
    [pc |-> "none", n_decimals |-> 0, worker |-> 0, iterations |-> 0, i |-> 0,
     st |-> NoSeries, C |-> NoDecimal, file_exists |-> FALSE, progress |-> F_0_0,
     result |-> Nothing, error |-> None]

NoInfo == [kind |-> "none", progress |-> F_0_0, result |-> Nothing, error |-> None]

\* the meta dict of an update_state call
Meta(progress, error) ==
    [kind |-> "meta", progress |-> progress, result |-> Nothing, error |-> error]

\* ResultDict without the digits under the key the handler reads
ResultDictNoResult(result) ==
    [kind |-> "result", progress |-> F_1_0, result |-> Nothing, error |-> None]

\* the dict calculate_pi_task returns
ResultDict(result) ==
    [kind |-> "result", progress |-> F_1_0, result |-> Some(result), error |-> None]

\* the exception the task raised, as the backend keeps it
ExcInfo(error) ==
    [kind |-> "exception", progress |-> F_0_0, result |-> Nothing, error |-> error]

Pending == [state |-> "PENDING", info |-> NoInfo]

NoHttp == [req |-> 0, raw |-> Nothing, status |-> 0, task_id |-> Nothing,
           decimals |-> Nothing]

IdleChk == [pc |-> "idle", task_id |-> 0, cache |-> Nothing]

NoResp == [status |-> 0, for |-> 0, state |-> None, progress |-> F_0_0,
           result |-> Nothing, error |-> Nothing]

\* a rational p/q as the pair <<p, q>>, q > 0; NaN is what 0/0 gives
Rat(p, q) == <<p, q>>
NaN == <<0, 0>>

NoParams == [kind |-> "none", a |-> NaN, b |-> NaN, error |-> None]

NoFit == [pc |-> "none", by |-> None, samples |-> <<>>, out |-> NoParams]

ServiceInit ==
    /\ ctxPrec = [w \in Workers |-> DefaultPrec]
    /\ store = [t \in Tasks |-> Pending]
    /\ emitted = [t \in Tasks |-> <<>>]
    /\ data_csv = [exists |-> FALSE, lines |-> <<>>]
    /\ http = NoHttp
    /\ chk = IdleChk
    /\ resp = NoResp

BaseInit == ServiceInit /\ fit = NoFit

Init ==
    /\ BaseInit
    /\ queue = <<>>
    /\ run = [t \in Tasks |-> NoRun]

\* ------------------------------------------------------------------------
\* GET /calculate_pi
\* ------------------------------------------------------------------------

RawChars == {"-", "0", "1", "x"}

\* the values of the query parameter n: absent, or a string of RawChars
RawParams ==
    {Nothing} \cup
    {Some(r) : r \in UNION {[1..k -> RawChars] : k \in 0..MaxRawLen}}

IsDigit(c) == c \in {"0", "1", "2", "3", "4", "5", "6", "7", "8", "9"}

DigitValue(c) ==
    CASE c = "0" -> 0 [] c = "1" -> 1 [] c = "2" -> 2 [] c = "3" -> 3
      [] c = "4" -> 4 [] c = "5" -> 5 [] c = "6" -> 6 [] c = "7" -> 7
      [] c = "8" -> 8 [] OTHER -> 9

RECURSIVE DigitsValue(_)
DigitsValue(r) ==
    IF r = <<>> THEN 0
    ELSE 10 * DigitsValue(SubSeq(r, 1, Len(r) - 1)) + DigitValue(r[Len(r)])

\* int(r): an optional sign, then one digit or more; Nothing is the ValueError
ParseInt(r) ==
    LET signed == r # <<>> /\ r[1] \in {"-", "+"}
        body   == IF signed THEN Tail(r) ELSE r
    IN  IF body = <<>> \/ \E j \in 1..Len(body) : ~IsDigit(body[j])
        THEN Nothing
        ELSE Some(IF signed /\ r[1] = "-" THEN 0 - DigitsValue(body)
                  ELSE DigitsValue(body))

\* request.args.get('n', type=int): None when n is absent or int() fails
ArgsGetInt(raw) == IF raw = Nothing THEN Nothing ELSE ParseInt(raw[1])

\* Rejected with the bound off by one: zero is let through
RejectedBelowZero(n) == n = Nothing \/ n[1] < 0

\* not isinstance(n, int) or n < 1
Rejected(n) == n = Nothing \/ n[1] < 1

\* the id of the next task sent
NextId == Cardinality({t \in Tasks : run[t].pc # "none"}) + 1

\* CalculatePi.get
CalculatePiGet(raw) ==
    /\ http.req < MaxRequests
    /\ LET n == ArgsGetInt(raw)
       IN  IF Rejected(n)
           THEN /\ http' = [req |-> http.req + 1, raw |-> raw, status |-> 400,
                            task_id |-> Nothing, decimals |-> Nothing]
                /\ UNCHANGED <<queue, run>>
           ELSE /\ run' = [run EXCEPT ![NextId] =
                              [NoRun EXCEPT !.pc = "queued", !.n_decimals = n[1]]]
                /\ queue' = Append(queue, NextId)
                /\ http' = [req |-> http.req + 1, raw |-> raw, status |-> 202,
                            task_id |-> Some(NextId), decimals |-> n]
    /\ UNCHANGED <<ctxPrec, store, emitted, data_csv, chk, resp, fit>>

\* ------------------------------------------------------------------------
\* The worker: calculate_pi_task and chudnovsky_pi
\* ------------------------------------------------------------------------

Active == {"loop", "write", "post", "returned", "except", "raised"}

Idle(w) == \A t \in Tasks : ~(run[t].worker = w /\ run[t].pc \in Active)

\* self.update_state(state=..., meta=...): the call is recorded in emitted[t];
\* ok says whether the backend took it (the store is written) or the call raised
UpdateState(t, state, meta, iteration, ok) ==
    /\ emitted' = [emitted EXCEPT ![t] =
                      Append(@, [state |-> state, progress |-> meta.progress,
                                 iteration |-> iteration, error |-> meta.error,
                                 ok |-> ok])]
    /\ store' = IF ok THEN [store EXCEPT ![t] = [state |-> state, info |-> meta]]
                ELSE store

\* an exception e leaves the try block of calculate_pi_task
Raise(t, e) == [run[t] EXCEPT !.pc = "except", !.error = e]

\* chudnovsky_pi up to the loop: the context precision, C, the series state
EngineEnter(r, w) ==
    LET p == Precision(r.n_decimals)
    IN  [r EXCEPT !.pc = "loop", !.worker = w, !.i = 1,
                  !.iterations = Iterations(r.n_decimals),
                  !.C = ChudC(p), !.st = SeriesInit]

\* a worker takes the task off the queue: calculate_pi_task reports progress
\* 0.0 and calls calculate_pi, which sets the precision and the series state
TaskStart(t, w) ==
    /\ queue # <<>> /\ Head(queue) = t
    /\ Idle(w)
    /\ queue' = Tail(queue)
    /\ \E sinkOk \in BOOLEAN :
         /\ UpdateState(t, "PROGRESS", Meta(F_0_0, None), Nothing, sinkOk)
         /\ IF ~sinkOk
            THEN /\ run' = [run EXCEPT ![t] = [Raise(t, SinkError) EXCEPT !.worker = w]]
                 /\ UNCHANGED ctxPrec
            ELSE IF Precision(run[t].n_decimals) < 1
            THEN /\ run' = [run EXCEPT ![t] = [Raise(t, PrecError) EXCEPT !.worker = w]]
                 /\ UNCHANGED ctxPrec
            ELSE /\ ctxPrec' = [ctxPrec EXCEPT ![w] = Precision(run[t].n_decimals)]
                 /\ run' = [run EXCEPT ![t] = EngineEnter(run[t], w)]
    /\ UNCHANGED <<data_csv, http, chk, resp, fit>>

\* the loop body up to write_iteration_data's os.path.isfile
LoopCompute(t) ==
    /\ run[t].pc = "loop"
    /\ run' = [run EXCEPT ![t] =
                 [@ EXCEPT !.pc = "write",
                           !.st = SeriesStep(@, run[t].i, ctxPrec[run[t].worker]),
                           !.progress = Float(run[t].i, run[t].iterations),
                           !.file_exists = data_csv.exists]]
    /\ UNCHANGED <<queue, ctxPrec, store, emitted, data_csv, http, chk, resp, fit>>

\* what write_iteration_data appends: the header when the file was not there
CsvAppend(t) ==
    [exists |-> TRUE,
     lines |-> data_csv.lines
               \o (IF run[t].file_exists THEN <<>> ELSE <<[kind |-> "header"]>>)
               \o <<[kind |-> "row", by |-> t, iteration |-> run[t].i,
                     progress |-> run[t].progress]>>]

\* the rest of the loop body: the row is appended, the progress is reported
\* when i % update_frequency == 0, and the loop moves on
LoopWrite(t) ==
    /\ run[t].pc = "write"
    /\ \E ioOk \in BOOLEAN, sinkOk \in BOOLEAN :
         IF ~ioOk
         THEN /\ sinkOk
              /\ run' = [run EXCEPT ![t] = Raise(t, FileError)]
              /\ UNCHANGED <<data_csv, store, emitted>>
         ELSE /\ data_csv' = CsvAppend(t)
              /\ IF run[t].i % UpdateFrequency(run[t].iterations) = 0
                 THEN /\ UpdateState(t, "PROGRESS", Meta(run[t].progress, None),
                                     Some(run[t].i), sinkOk)
                      /\ run' = [run EXCEPT ![t] =
                                   IF sinkOk
                                   THEN [@ EXCEPT !.i = @ + 1,
                                           !.pc = IF run[t].i = run[t].iterations
                                                  THEN "post" ELSE "loop"]
                                   ELSE Raise(t, SinkError)]
                 ELSE /\ sinkOk
                      /\ run' = [run EXCEPT ![t] =
                                   [@ EXCEPT !.i = @ + 1,
                                       !.pc = IF run[t].i = run[t].iterations
                                              THEN "post" ELSE "loop"]]
                      /\ UNCHANGED <<store, emitted>>
    /\ UNCHANGED <<queue, ctxPrec, http, chk, resp, fit>>

\* ResultString as str(pi_result): every digit of the working precision
ResultStringUnformatted(t) ==
    FormatFixed(PiResult(run[t].C, run[t].st, ctxPrec[run[t].worker]),
                ctxPrec[run[t].worker] - 1)

\* the string chudnovsky_pi returns
ResultString(t) ==
    FormatFixed(PiResult(run[t].C, run[t].st, ctxPrec[run[t].worker]),
                run[t].n_decimals)

\* after the loop: pi_result, the report of progress 0.99, the format and the
\* return of calculate_pi_task
Finish(t) ==
    /\ run[t].pc = "post"
    /\ \E sinkOk \in BOOLEAN :
         /\ UpdateState(t, "PROGRESS", Meta(F_0_99, None), Nothing, sinkOk)
         /\ run' = [run EXCEPT ![t] =
                      IF ~sinkOk THEN Raise(t, SinkError)
                      ELSE IF run[t].n_decimals < 0 THEN Raise(t, FormatError)
                      ELSE [@ EXCEPT !.pc = "returned",
                                     !.result = Some(ResultString(t))]]
    /\ UNCHANGED <<queue, ctxPrec, data_csv, http, chk, resp, fit>>

\* Celery stores the returned dict: the task's state is SUCCESS
TaskSuccess(t) ==
    /\ run[t].pc = "returned"
    /\ store' = [store EXCEPT ![t] =
                   [state |-> "SUCCESS", info |-> ResultDict(run[t].result[1])]]
    /\ run' = [run EXCEPT ![t].pc = "done"]
    /\ UNCHANGED <<queue, ctxPrec, emitted, data_csv, http, chk, resp, fit>>

\* ExceptHandler that re-raises without the FAILURE report
ExceptHandlerNoReport(t) ==
    /\ run[t].pc = "except"
    /\ run' = [run EXCEPT ![t].pc = "raised"]
    /\ UNCHANGED <<queue, ctxPrec, store, emitted, data_csv, http, chk, resp, fit>>

\* except Exception as e: the FAILURE report, then raise; an exception of the
\* report itself replaces e
ExceptHandler(t) ==
    /\ run[t].pc = "except"
    /\ \E sinkOk \in BOOLEAN :
         /\ UpdateState(t, "FAILURE", Meta(F_0_0, run[t].error), Nothing, sinkOk)
         /\ run' = [run EXCEPT ![t] =
                      [@ EXCEPT !.pc = "raised",
                                !.error = IF sinkOk THEN @ ELSE SinkError]]
    /\ UNCHANGED <<queue, ctxPrec, data_csv, http, chk, resp, fit>>

\* Celery stores the exception the task raised: the task's state is FAILURE
TaskFailure(t) ==
    /\ run[t].pc = "raised"
    /\ store' = [store EXCEPT ![t] =
                   [state |-> "FAILURE", info |-> ExcInfo(run[t].error)]]
    /\ run' = [run EXCEPT ![t].pc = "failed"]
    /\ UNCHANGED <<queue, ctxPrec, emitted, data_csv, http, chk, resp, fit>>

Worker ==
    \/ \E t \in Tasks, w \in Workers : TaskStart(t, w)
    \/ \E t \in Tasks : LoopCompute(t)
    \/ \E t \in Tasks : LoopWrite(t)
    \/ \E t \in Tasks : Finish(t)
    \/ \E t \in Tasks : TaskSuccess(t)
    \/ \E t \in Tasks : ExceptHandler(t)
    \/ \E t \in Tasks : TaskFailure(t)

\* ------------------------------------------------------------------------
\* POST /check_progress
\* ------------------------------------------------------------------------

\* request.get_json(): no body, a body without task_id, or a task id
PostBodies ==
    {[json |-> FALSE, task_id |-> Nothing], [json |-> TRUE, task_id |-> Nothing]}
    \cup {[json |-> TRUE, task_id |-> Some(t)] : t \in Tasks}

ReadyStates == {"SUCCESS", "FAILURE"}

\* what one access of task.state or task.info can get: the meta AsyncResult
\* cached once it saw a ready state, else the backend's.  A FAILURE that
\* update_state stored with a plain dict is not an exception the backend can
\* rebuild: depending on the Celery version the access returns the dict or raises
Reads(t) ==
    IF chk.cache # Nothing THEN {[raised |-> FALSE, meta |-> chk.cache[1]]}
    ELSE {[raised |-> FALSE, meta |-> store[t]]}
         \cup IF store[t].state = "FAILURE" /\ store[t].info.kind = "meta"
              THEN {[raised |-> TRUE, meta |-> store[t]]} ELSE {}

Cached(meta) ==
    IF chk.cache # Nothing THEN chk.cache
    ELSE IF meta.state \in ReadyStates THEN Some(meta) ELSE Nothing

\* str(task.info): the message of the exception, or the repr of the dict
StrInfo(info) ==
    IF info.kind = "exception" THEN <<info.error>>
    ELSE <<"{'progress': 0.0, 'error': '", info.error, "'}">>

Respond(status, t, state, progress, result, error) ==
    /\ resp' = [status |-> status, for |-> t, state |-> state,
                progress |-> progress, result |-> result, error |-> error]
    /\ chk' = IdleChk

ServerError(t) == Respond(500, t, None, F_0_0, Nothing, Nothing)

\* the handler up to its first look at task.state
CheckProgressPost(data) ==
    /\ chk.pc = "idle"
    /\ IF ~data.json \/ data.task_id = Nothing
       THEN Respond(400, 0, None, F_0_0, Nothing, Nothing)
       ELSE \E rd \in Reads(data.task_id[1]) :
              IF rd.raised THEN ServerError(data.task_id[1])
              ELSE IF rd.meta.state = "PENDING"
              THEN Respond(200, data.task_id[1], "PROGRESS", F_0_0, Nothing, Nothing)
              ELSE /\ chk' = [pc |-> "state2", task_id |-> data.task_id[1],
                              cache |-> Cached(rd.meta)]
                   /\ UNCHANGED resp
    /\ UNCHANGED <<queue, run, ctxPrec, store, emitted, data_csv, http, fit>>

\* elif task.state == 'PROGRESS'
CheckState2 ==
    /\ chk.pc = "state2"
    /\ \E rd \in Reads(chk.task_id) :
         IF rd.raised THEN ServerError(chk.task_id)
         ELSE /\ chk' = [chk EXCEPT !.pc = IF rd.meta.state = "PROGRESS"
                                           THEN "info" ELSE "state3",
                                    !.cache = Cached(rd.meta)]
              /\ UNCHANGED resp
    /\ UNCHANGED <<queue, run, ctxPrec, store, emitted, data_csv, http, fit>>

\* task.info.get('progress', 0.0): an exception has no get
CheckInfo ==
    /\ chk.pc = "info"
    /\ \E rd \in Reads(chk.task_id) :
         IF rd.raised \/ rd.meta.info.kind = "exception"
         THEN ServerError(chk.task_id)
         ELSE Respond(200, chk.task_id, "PROGRESS", rd.meta.info.progress,
                      Nothing, Nothing)
    /\ UNCHANGED <<queue, run, ctxPrec, store, emitted, data_csv, http, fit>>

\* elif task.state == 'SUCCESS' ... else
CheckState3 ==
    /\ chk.pc = "state3"
    /\ \E rd \in Reads(chk.task_id) :
         IF rd.raised THEN ServerError(chk.task_id)
         ELSE IF rd.meta.state = "SUCCESS"
         THEN Respond(200, chk.task_id, "FINISHED", F_1_0,
                      rd.meta.info.result, Nothing)
         ELSE Respond(200, chk.task_id, "FAILURE", F_0_0, Nothing,
                      Some(StrInfo(rd.meta.info)))
    /\ UNCHANGED <<queue, run, ctxPrec, store, emitted, data_csv, http, fit>>

\* ------------------------------------------------------------------------
\* Specifications
\* ------------------------------------------------------------------------

Next ==
    \/ \E raw \in RawParams : CalculatePiGet(raw)
    \/ Worker
    \/ \E data \in PostBodies : CheckProgressPost(data)
    \/ CheckState2
    \/ CheckInfo
    \/ CheckState3

\* the service: requests, workers and progress checks
Spec == Init /\ [][Next]_vars

\* the digit counts the engine is called with directly
KnownCases == {10, 50}
EngineInputs == ((0 - MaxNegative)..MaxDecimals) \cup KnownCases

\* the tasks 1..k sent as calculate_pi_task.delay(n) does, n of inputs
Sent(k, inputs) ==
    /\ BaseInit
    /\ queue = [t \in 1..k |-> t]
    /\ \E ns \in [1..k -> inputs] :
         run = [t \in Tasks |->
                  IF t <= k THEN [NoRun EXCEPT !.pc = "queued", !.n_decimals = ns[t]]
                  ELSE NoRun]

InitEngine == Sent(1, EngineInputs)

NextEngine == Worker

\* one run of the engine for each input
SpecEngine == InitEngine /\ [][NextEngine]_vars

PoolInputs == {1}

InitPool == Sent(MaxTasks, PoolInputs)

NextPool == Worker

\* the worker pool with a task for every pool process to run at once
SpecPool == InitPool /\ [][NextPool]_vars

\* ------------------------------------------------------------------------
\* The power-law fit
\* ------------------------------------------------------------------------

MaxSamples == 3
MaxLog == 2

\* the positive values are powers of two: np.log is exact in units of ln 2
PositiveValues == {2 ^ k : k \in 0..MaxLog}

\* a row of data.csv as the fit reads it: columns 0 and 1
Samples == [iteration : {0 - 1, 0} \cup PositiveValues,
            time      : {0} \cup {2 ^ k : k \in 0..1}]

SampleSeqs == UNION {[1..k -> Samples] : k \in 0..MaxSamples}

\* np.log of a positive value, in units of ln 2
Log2(x) == CHOOSE k \in 0..(MaxLog + 1) : 2 ^ k = x

\* mask = (iterations > 0) & (times > 0)
Valid(s) == s.iteration > 0 /\ s.time > 0

Masked(samples) == SelectSeq(samples, Valid)

RECURSIVE SumSeq(_)
SumSeq(x) == IF x = <<>> THEN 0 ELSE x[1] + SumSeq(Tail(x))

\* k^2 times np.cov(x, y, bias=True)[0, 1]; with y = x, k^2 times np.var(x)
CovN(x, y) ==
    Len(x) * SumSeq([j \in 1..Len(x) |-> x[j] * y[j]]) - SumSeq(x) * SumSeq(y)

Params(a, b) == [kind |-> "params", a |-> a, b |-> b, error |-> None]

FitError(e) == [kind |-> "error", a |-> NaN, b |-> NaN, error |-> e]

ValueErrorNotEnough == "Not enough valid (positive) points to fit power-law model"
IndexErrorLoad == "IndexError: too many indices for array"

\* logn, logT, b = cov / var, a = mean(logT) - b * mean(logn), of positive
\* samples: a zero variance makes b the float 0/0, nan, and a with it
LeastSquares(it) ==
    LET logn == [j \in 1..Len(it) |-> Log2(it[j].iteration)]
        logT == [j \in 1..Len(it) |-> Log2(it[j].time)]
        cov  == CovN(logn, logT)
        var  == CovN(logn, logn)
    IN  IF var = 0 THEN Params(NaN, NaN)
        ELSE Params(Rat(SumSeq(logT) * var - cov * SumSeq(logn), Len(it) * var),
                    Rat(cov, var))

\* the same on samples that are not masked: the log of a value <= 0 is -inf
\* or nan, and every parameter computed with it is nan
LeastSquaresRaw(samples) ==
    IF \E j \in 1..Len(samples) : ~Valid(samples[j]) THEN Params(NaN, NaN)
    ELSE LeastSquares(samples)

\* fit_power_law(iterations, times)
fit_power_law(samples) ==
    LET it == Masked(samples)
    IN  IF Len(it) < 2 THEN FitError(ValueErrorNotEnough) ELSE LeastSquares(it)

\* logariphmic_aproximation.py: np.loadtxt gives no two-dimensional array for
\* fewer than two rows, and data[:, 0] fails on it; the fit has no mask
module_level_fit(samples) ==
    IF Len(samples) < 2 THEN FitError(IndexErrorLoad) ELSE LeastSquaresRaw(samples)

\* a fit ends: what it raised or returned
FitDone(by, out) == [fit EXCEPT !.pc = "done", !.by = by, !.out = out]

FitPowerLaw ==
    /\ fit.pc = "ready"
    /\ fit' = FitDone("fit_power_law", fit_power_law(fit.samples))
    /\ UNCHANGED <<queue, run, ctxPrec, store, emitted, data_csv, http, chk, resp>>

ModuleLevelFit ==
    /\ fit.pc = "ready"
    /\ fit' = FitDone("module", module_level_fit(fit.samples))
    /\ UNCHANGED <<queue, run, ctxPrec, store, emitted, data_csv, http, chk, resp>>

InitFit ==
    /\ ServiceInit
    /\ queue = <<>>
    /\ run = [t \in Tasks |-> NoRun]
    /\ \E ss \in SampleSeqs : fit = [NoFit EXCEPT !.pc = "ready", !.samples = ss]

NextFit ==
    \/ FitPowerLaw
    \/ ModuleLevelFit

\* the fits run on every table of samples
SpecFit == InitFit /\ [][NextFit]_vars

\* ------------------------------------------------------------------------
\* The loop's progress reports
\* ------------------------------------------------------------------------

MaxIterations == 151

\* the loop of chudnovsky_pi as far as its reports go: the counter i, the
\* test i % update_frequency == 0 and the update_state call, for a run that has
\* iterations passes to make; the series and the file are left out
ReportStep(t) ==
    /\ run[t].pc = "report"
    /\ IF run[t].i % UpdateFrequency(run[t].iterations) = 0
       THEN UpdateState(t, "PROGRESS",
                        Meta(Float(run[t].i, run[t].iterations), None),
                        Some(run[t].i), TRUE)
       ELSE UNCHANGED <<store, emitted>>
    /\ run' = [run EXCEPT ![t] =
                 [@ EXCEPT !.i = @ + 1,
                           !.progress = Float(run[t].i, run[t].iterations),
                           !.pc = IF run[t].i = run[t].iterations
                                  THEN "reported" ELSE "report"]]
    /\ UNCHANGED <<queue, ctxPrec, data_csv, http, chk, resp, fit>>

\* task 1 at the head of the loop, for every number of iterations
InitReports ==
    /\ BaseInit
    /\ queue = <<>>
    /\ \E total \in 1..MaxIterations :
         run = [t \in Tasks |->
                  IF t = 1
                  THEN [NoRun EXCEPT !.pc = "report", !.worker = 1, !.i = 1,
                                     !.iterations = total]
                  ELSE NoRun]

NextReports == \E t \in Tasks : ReportStep(t)

SpecReports == InitReports /\ [][NextReports]_vars

\* ------------------------------------------------------------------------
\* Claims
\* ------------------------------------------------------------------------

Faulted(t) == run[t].pc \in {"except", "raised", "failed"}

ProgressEvents(t) == SelectSeq(emitted[t], LAMBDA e : e.state = "PROGRESS")

LastEvent(t) == emitted[t][Len(emitted[t])]

\* C1: in a run for n_decimals >= 1 the progress values of the PROGRESS events
\* handed to update_state, in the order of the calls, never decrease, the event
\* after the loop included.
C1_ProgressNonDecreasing ==
    \A t \in Tasks :
        run[t].n_decimals >= 1 =>
            \A k \in 1..(Len(ProgressEvents(t)) - 1) :
                FloatLe(ProgressEvents(t)[k].progress, ProgressEvents(t)[k + 1].progress)

\* C2: in a run for n_decimals >= 1 every PROGRESS event carries a progress
\* below 1.0, the one of iteration i = iterations included.
C2_ProgressBelowOne ==
    \A t \in Tasks :
        run[t].n_decimals >= 1 =>
            \A k \in 1..Len(emitted[t]) :
                emitted[t][k].state = "PROGRESS" => FloatLt(emitted[t][k].progress, F_1_0)

\* C3: a call with n_decimals < 1 fails before the loop is entered: it is in
\* the failure path as soon as the engine is called, no iteration runs and the
\* engine hands no PROGRESS event to update_state (the only one is the 0.0 that
\* calculate_pi_task reports before the call).
C3_InvalidArgumentRejected ==
    \A t \in Tasks :
        (run[t].n_decimals < 1 /\ run[t].pc \notin {"none", "queued"}) =>
            /\ Faulted(t)
            /\ run[t].st \in {NoSeries, SeriesInit}
            /\ \A k \in 1..Len(data_csv.lines) :
                  data_csv.lines[k].kind = "row" => data_csv.lines[k].by # t
            /\ \A k \in 1..Len(ProgressEvents(t)) :
                  /\ ProgressEvents(t)[k].iteration = Nothing
                  /\ FloatEq(ProgressEvents(t)[k].progress, F_0_0)

\* the parameter is there and is the text of an integer >= 1
PositiveIntText(raw) ==
    /\ raw # Nothing
    /\ LET r    == raw[1]
           body == IF r # <<>> /\ r[1] = "+" THEN Tail(r) ELSE r
       IN  /\ body # <<>>
           /\ \A j \in 1..Len(body) : IsDigit(body[j])
           /\ \E j \in 1..Len(body) : body[j] # "0"

C4_Response ==
    http.req > 0 =>
        IF PositiveIntText(http.raw)
        THEN /\ http.status = 202
             /\ http.task_id # Nothing
             /\ http.decimals # Nothing
             /\ http.decimals[1] >= 1
             /\ run[http.task_id[1]].n_decimals = http.decimals[1]
        ELSE http.status = 400 /\ http.task_id = Nothing

C4_Dispatch ==
    /\ http'.req # http.req /\ http'.status = 400 => queue' = queue /\ run' = run
    /\ queue' # queue /\ Len(queue') > Len(queue) =>
          /\ http'.req # http.req /\ http'.status = 202
          /\ queue' = Append(queue, http'.task_id[1])
          /\ run[http'.task_id[1]].pc = "none"
          /\ run'[http'.task_id[1]].pc = "queued"
          /\ run'[http'.task_id[1]].n_decimals >= 1

\* C4: GET /calculate_pi answers 400 and sends no task when n is missing, not
\* the text of an integer, zero or negative; it answers 202 with the id of the
\* task it sent exactly when n is the text of an integer >= 1, and no task is
\* sent otherwise.
C4_OnlyPositiveIntegerDispatched == [](C4_Response) /\ [][C4_Dispatch]_vars

\* a request for n = 0 or a negative integer was answered 400
C4_Witness ==
    http.status = 400 /\ ArgsGetInt(http.raw) # Nothing /\ queue = <<>>

C5_State ==
    \A t \in Tasks :
        /\ run[t].error # None => Faulted(t)
        /\ Faulted(t) => run[t].result = Nothing /\ store[t].state # "SUCCESS"
        /\ run[t].pc \in {"raised", "failed"} =>
              /\ emitted[t] # <<>>
              /\ LastEvent(t).state = "FAILURE"
              /\ LastEvent(t).error # None
        /\ run[t].pc = "failed" => store[t].state = "FAILURE"

C5_Step ==
    \A t \in Tasks :
        Faulted(t) =>
            /\ run'[t].pc \in {"except", "raised", "failed"}
            /\ run'[t].i = run[t].i
            /\ run'[t].st = run[t].st
            /\ data_csv' = data_csv
            /\ (run[t].pc = "except" /\ run'[t].pc # "except") =>
                  /\ Len(emitted'[t]) = Len(emitted[t]) + 1
                  /\ emitted'[t][Len(emitted'[t])].state = "FAILURE"
                  /\ emitted'[t][Len(emitted'[t])].error = run[t].error

\* C5: an exception raised in the run (in the loop: the write of data.csv or
\* the progress report) puts the run in the failure path for good: a FAILURE
\* event with the error's description is handed to update_state, the task ends
\* in state FAILURE, no iteration runs after the faulted one and the run
\* returns no result.
C5_ExceptionFailsRun == [](C5_State) /\ [][C5_Step]_vars

\* a run for n_decimals >= 1 failed on an exception of the loop's file write
C5_Witness ==
    \E t \in Tasks :
        /\ run[t].pc = "failed" /\ run[t].error = FileError
        /\ run[t].n_decimals >= 1 /\ run[t].i >= 1

\* C6: when update_state raises at an iteration's progress report, the run for
\* n_decimals >= 1 is not aborted: it does not enter the failure path.
C6_SinkFailureDoesNotAbort ==
    \A t \in Tasks :
        (/\ run[t].n_decimals >= 1
         /\ \E k \in 1..Len(emitted[t]) :
               /\ emitted[t][k].state = "PROGRESS"
               /\ emitted[t][k].iteration # Nothing
               /\ ~emitted[t][k].ok)
        => ~Faulted(t)

\* C7: a check_progress response of state FINISHED has progress 1.0 and the
\* digit string the engine returned as its result; one of state FAILURE has no
\* result and an error text; one of state PROGRESS has no result.
C7_ResponseShape ==
    /\ resp.state = "FINISHED" =>
          /\ FloatEq(resp.progress, F_1_0)
          /\ resp.result # Nothing
          /\ resp.result = run[resp.for].result
          /\ Len(resp.result[1]) > 0
    /\ resp.state = "FAILURE" =>
          /\ resp.result = Nothing
          /\ resp.error # Nothing
          /\ \E j \in 1..Len(resp.error[1]) : resp.error[1][j] = run[resp.for].error
    /\ resp.state = "PROGRESS" => resp.result = Nothing

\* a response of state FINISHED was given
C7_Witness == resp.status = 200 /\ resp.state = "FINISHED"

Running(t) == run[t].pc \in {"loop", "write", "post"}

CsvWriters == {data_csv.lines[k].by : k \in {j \in 1..Len(data_csv.lines) :
                                              data_csv.lines[j].kind = "row"}}

\* C8: two computations that run at the same time share no location one of
\* them writes: not the precision setting (each has its own worker's), not the
\* file of the iterations.
C8_NoSharedMutableState ==
    \A t1 \in Tasks, t2 \in Tasks :
        (t1 # t2 /\ Running(t1) /\ Running(t2)) =>
            /\ run[t1].worker # run[t2].worker
            /\ ~(t1 \in CsvWriters /\ t2 \in CsvWriters)

\* C9: for n_decimals >= 1 the string returned is "3." followed by exactly
\* n_decimals decimal digits.
C9_ResultFormat ==
    \A t \in Tasks :
        (run[t].n_decimals >= 1 /\ run[t].result # Nothing) =>
            LET r == run[t].result[1]
            IN  /\ Len(r) = run[t].n_decimals + 2
                /\ r[1] = "3"
                /\ r[2] = "."
                /\ \A j \in 3..Len(r) : IsDigit(r[j])

\* a run for 14 digits, the first to take three iterations, returned
C9_Witness ==
    \E t \in Tasks :
        run[t].n_decimals = DigitsPerTerm /\ run[t].iterations = 3 /\ run[t].result # Nothing

PI_10_DIGITS == <<"3",".","1","4","1","5","9","2","6","5","3","5">>

PI_50_DIGITS ==
    <<"3",".","1","4","1","5","9","2","6","5","3","5","8","9","7","9","3","2",
      "3","8","4","6","2","6","4","3","3","8","3","2","7","9","5","0","2","8",
      "8","4","1","9","7","1","6","9","3","9","9","3","7","5","1","0">>

\* C10: the string returned for 10 digits is 3.1415926535 and the one returned
\* for 50 digits is 3.14159265358979323846264338327950288419716939937510.
C10_KnownDigits ==
    \A t \in Tasks :
        run[t].result # Nothing =>
            /\ run[t].n_decimals = 10 => run[t].result[1] = PI_10_DIGITS
            /\ run[t].n_decimals = 50 => run[t].result[1] = PI_50_DIGITS

ValidCount == Len(Masked(fit.samples))

SameIterations ==
    \A j \in 1..ValidCount, k \in 1..ValidCount :
        Masked(fit.samples)[j].iteration = Masked(fit.samples)[k].iteration

\* C11: a fit discards the samples with iteration <= 0 or elapsed_time <= 0:
\* it fails, giving no parameters, when fewer than 2 valid samples remain, and
\* it gives the parameters of the valid samples (numbers, unless these are
\* degenerate) when at least 2 remain.
C11_InsufficientDataFails ==
    fit.pc = "done" =>
        /\ ValidCount < 2 => fit.out.kind = "error"
        /\ ValidCount >= 2 =>
              /\ fit.out.kind = "params"
              /\ SameIterations \/ (fit.out.a # NaN /\ fit.out.b # NaN)

\* C12: fit_power_law fails, returning no parameters, when at least 2 valid
\* samples remain and all of them have the same iteration count.
C12_DegenerateDataFails ==
    (/\ fit.pc = "done" /\ fit.by = "fit_power_law"
     /\ ValidCount >= 2 /\ SameIterations)
    => fit.out.kind = "error"

\* the iterations task t wrote to data.csv, in the order of the rows
RowsOf(t) ==
    LET rows == SelectSeq(data_csv.lines, LAMBDA l : l.kind = "row" /\ l.by = t)
    IN  [k \in 1..Len(rows) |-> rows[k].iteration]

C13_LoopCount ==
    \A t \in Tasks :
        run[t].n_decimals >= 1 =>
            LET total == IF run[t].n_decimals \div 14 + 2 > 1
                         THEN run[t].n_decimals \div 14 + 2 ELSE 1
            IN  /\ run[t].pc \notin {"none", "queued"} /\ run[t].iterations # 0
                      => run[t].iterations = total
                /\ RowsOf(t) = [k \in 1..Len(RowsOf(t)) |-> k]
                /\ Len(RowsOf(t)) <= total
                /\ run[t].pc \in {"loop", "write"} => Len(RowsOf(t)) = run[t].i - 1
                /\ run[t].pc \in {"post", "returned", "done"} => Len(RowsOf(t)) = total
                /\ run[t].result # Nothing =>
                      /\ Len(RowsOf(t)) = total
                      /\ run[t].pc \in {"returned", "done"}

\* the number of steps a run in frame r has left at most
StepsLeft(r) ==
    LET total == IF r.n_decimals \div 14 + 2 > 1 THEN r.n_decimals \div 14 + 2 ELSE 1
    IN  CASE r.pc = "queued"   -> 2 * total + 6
          [] r.pc = "loop"     -> 2 * (total - r.i) + 5
          [] r.pc = "write"    -> 2 * (total - r.i) + 4
          [] r.pc = "post"     -> 3
          [] r.pc = "except"   -> 2
          [] r.pc \in {"returned", "raised"} -> 1
          [] OTHER -> 0

\* every step of a run takes it nearer to its end
C13_Terminates ==
    \A t \in Tasks :
        (run[t].n_decimals >= 1 /\ run'[t] # run[t]) =>
            /\ StepsLeft(run'[t]) < StepsLeft(run[t])
            /\ StepsLeft(run'[t]) >= 0

\* C13: for n_decimals >= 1 the loop runs the iterations i = 1, 2, ...,
\* max(1, n_decimals // 14 + 2), each once and in this order, the result is
\* computed and returned only after the last of them, and the run ends: every
\* step lowers a bound on the steps left.
C13_ExactIterations == [](C13_LoopCount) /\ [][C13_Terminates]_vars

\* a run for 15 digits returned after its three iterations
C13_Witness ==
    \E t \in Tasks :
        /\ run[t].n_decimals = 15 /\ run[t].pc = "done"
        /\ RowsOf(t) = <<1, 2, 3>>

\* the iterations of the events task t reported from the loop, in the order
\* of the calls
EventIterations(t) ==
    LET ev == SelectSeq(emitted[t],
                        LAMBDA e : e.state = "PROGRESS" /\ e.iteration # Nothing)
    IN  [k \in 1..Len(ev) |-> ev[k].iteration[1]]

\* C14: the loop reports exactly at the iterations i with i mod
\* update_frequency = 0, update_frequency being 1 for up to 100 iterations and
\* max(1, iterations // 50) above: after p passes the events are those of the
\* iterations update_frequency, 2 * update_frequency, ... up to p, in this
\* order; a whole run has at least 1 and at most 100 of them, all within
\* 1..iterations.
C14_ReportSchedule ==
    \A t \in Tasks :
        run[t].pc \in {"report", "reported"} =>
            LET total  == run[t].iterations
                uf     == IF total <= 100 THEN 1
                          ELSE IF total \div 50 > 1 THEN total \div 50 ELSE 1
                passed == run[t].i - 1
                its    == EventIterations(t)
            IN  /\ Len(its) = passed \div uf
                /\ \A k \in 1..Len(its) : its[k] = k * uf /\ its[k] \in 1..total
                /\ \A k \in 1..(Len(its) - 1) : its[k] < its[k + 1]
                /\ Len(its) <= 100
                /\ run[t].pc = "reported" => passed = total /\ Len(its) >= 1

\* a run of 149 iterations, which reports every second one, is through
C14_Witness ==
    \E t \in Tasks :
        /\ run[t].pc = "reported" /\ run[t].iterations = 149
        /\ Len(EventIterations(t)) = 74

C15_Step ==
    \A t \in Tasks :
        (run[t].pc = "loop" /\ run'[t].pc = "write") =>
            LET K   == run[t].st.K
                i   == run[t].i
                num == BMul(run[t].st.M, BFromInt(K * K * K - 16 * K))
                den == BFromInt(i * i * i)
            IN  /\ K = 12 * i - 6
                /\ BDivide(num, den).exact
                /\ BMul(run'[t].st.M, den) = num
                /\ run'[t].st.M # <<>>

\* C15: at every iteration i the numerator (K^3 - 16K) * M, with K = 12i - 6
\* and M the value of the iteration before, is divisible by i^3: the M the
\* floor division gives, times i^3, is the numerator, and M stays positive.
C15_ExactDivision == [][C15_Step]_vars

\* the fifth iteration of a run has computed its M
C15_Witness ==
    \E t \in Tasks : run[t].pc = "write" /\ run[t].i = 5 /\ run[t].st.K = 66

TerminalStates == {"SUCCESS", "FAILURE"}

C16_State ==
    \A t \in Tasks :
        /\ store[t].state \in {"PENDING", "PROGRESS"} \cup TerminalStates
        /\ run[t].pc = "done" => store[t].state = "SUCCESS"
        /\ run[t].pc = "failed" => store[t].state = "FAILURE"

C16_Step ==
    \A t \in Tasks : store[t].state \in TerminalStates => store'[t] = store[t]

\* C16: the store of a task gets PROGRESS updates and then one terminal
\* write, SUCCESS or FAILURE; once it holds a terminal state nothing is
\* written to it any more.
C16_TerminalFinal == [](C16_State) /\ [][C16_Step]_vars

====
